---- MODULE Spec2Model ----
(***************************************************************************)
(* State-machine model of the shoe store canister                          *)
(* (src/src/icp_rust_boilerplate_backend/src/lib.rs).                      *)
(*                                                                         *)
(* The canister state is the id counter cell and the stable map from id    *)
(* to encoded Shoe.  Every exported function is one action: the host       *)
(* runs each call to completion, and a call that panics traps, which       *)
(* rolls its writes back and hands the caller a reject instead of a        *)
(* value.  A handler is an operator from the canister state and the        *)
(* call's inputs to the state it leaves and the response it returns; the   *)
(* action of the call installs that state.                                 *)
(***************************************************************************)
EXTENDS Integers, Sequences, FiniteSets, TLC

(***************************************************************************)
(* Bounds of the model.                                                    *)
(***************************************************************************)
\* The number of distinct callers.
NumPrincipals == 2
\* The number of successful add_shoe calls (the u64 id counter stays below it).
MaxAdds == 2
\* The latest reading of the host clock.
MaxTime == 0
\* The largest small page number asked of get_shoes.
MaxPage == 2

(***************************************************************************)
(* Callers.  A Principal is an opaque blob; to_string is its textual       *)
(* form, which is different for different principals.                      *)
(***************************************************************************)
Principals == 1..NumPrincipals

to_string(p) == "principal-" \o ToString(p)

(***************************************************************************)
(* Text that the code inspects character by character is a sequence of     *)
(* one-character strings.                                                  *)
(***************************************************************************)
Lower == {"a", "b", "c", "d", "e", "f", "g", "h", "i", "j", "k", "l", "m",
          "n", "o", "p", "q", "r", "s", "t", "u", "v", "w", "x", "y", "z"}

Digit == {"0", "1", "2", "3", "4", "5", "6", "7", "8", "9"}

Alnum == Lower \cup Digit

\* Positions after one character of class C, starting from any position of P.
StepClass(s, P, C) == {p + 1 : p \in {q \in P : q <= Len(s) /\ s[q] \in C}}

\* Positions after the literal lit, starting from any position of P.
StepLit(s, P, lit) ==
    {p + Len(lit) : p \in {q \in P : /\ q + Len(lit) - 1 <= Len(s)
                                     /\ SubSeq(s, q, q + Len(lit) - 1) = lit}}

\* Positions after one or more characters of class C.
RECURSIVE PlusClass(_, _, _)
PlusClass(s, P, C) ==
    LET n == StepClass(s, P, C)
    IN  IF n = {} THEN {} ELSE n \cup PlusClass(s, n, C)

\* Positions after between lo and hi characters of class C.
RECURSIVE RangeClass(_, _, _, _, _)
RangeClass(s, P, C, lo, hi) ==
    IF hi = 0 THEN P
    ELSE LET n == StepClass(s, P, C)
         IN  IF lo > 0 THEN RangeClass(s, n, C, lo - 1, hi - 1)
             ELSE P \cup RangeClass(s, n, C, 0, hi - 1)

\* Positions after any number of groups ([\-\.]{1}[a-z0-9]+).
RECURSIVE StarGroup(_, _)
StarGroup(s, P) ==
    LET n == PlusClass(s, StepClass(s, P, {"-", "."}), Alnum) \ P
    IN  IF n = {} THEN P ELSE StarGroup(s, P \cup n)

UrlSchemes == { <<"h", "t", "t", "p", ":", "/", "/", "w", "w", "w", ".">>,
                <<"h", "t", "t", "p", "s", ":", "/", "/", "w", "w", "w", ".">>,
                <<"h", "t", "t", "p", ":", "/", "/">>,
                <<"h", "t", "t", "p", "s", ":", "/", "/">> }

\* The regular expression of is_valid_url, anchored at both ends.
is_valid_url(url) ==
    LET scheme == {1} \cup UNION {StepLit(url, {1}, l) : l \in UrlSchemes}
        host   == StarGroup(url, PlusClass(url, scheme, Alnum))
        tld    == RangeClass(url, StepClass(url, host, {"."}), Lower, 2, 5)
        port   == tld \cup RangeClass(url, StepClass(url, tld, {":"}), Digit, 1, 5)
        path   == port \cup {Len(url) + 1 : p \in
                       {q \in StepClass(url, port, {"/"}) :
                            \A i \in q..Len(url) : url[i] # "\n"}}
    IN  (Len(url) + 1) \in path

is_valid_price(price) == price >= 0

\* A quantity check that lets zero through.
is_valid_quantity_AllowsZero(quantity) == quantity >= 0

is_valid_quantity(quantity) == quantity > 0

Ok(v) == [tag |-> "Ok", val |-> v]
\* Err of the Error enum, and Err of a String message.
Err(e) == [tag |-> "Err", val |-> e]
ErrMsg(msg) == [tag |-> "ErrMsg", val |-> msg]
\* The call panicked: the host rolls the call's writes back and rejects it.
Trap == [tag |-> "Trap", val |-> "panic"]

validate_shoe_payload(payload) ==
    IF ~is_valid_url(payload.shoe_url) THEN ErrMsg("Invalid URL format")
    ELSE IF ~is_valid_price(payload.price) THEN ErrMsg("Invalid price value")
    ELSE IF ~is_valid_quantity(payload.quantity) THEN ErrMsg("Invalid quantity value")
    ELSE Ok("unit")

(***************************************************************************)
(* Inputs.  A payload is the ShoePayload struct; shoe_url is text the code  *)
(* matches against the URL pattern.                                        *)
(***************************************************************************)
UrlGood == <<"a", ".", "i", "o">>
UrlBad == <<"a", ".", "i">>

ShoePayload(name, size, shoe_url, price, quantity) ==
    [name |-> name, size |-> size, shoe_url |-> shoe_url,
     price |-> price, quantity |-> quantity]

ValidPayloads == { ShoePayload("boot", "41", UrlGood, 30, 20000),
                   ShoePayload("clog", "42", UrlGood, 10, 20000) }

InvalidPayloads == { ShoePayload("boot", "41", UrlBad, 30, 1),
                     ShoePayload("boot", "41", UrlGood, -1, 1),
                     ShoePayload("boot", "41", UrlGood, 30, 0) }

Payloads == ValidPayloads \cup InvalidPayloads

\* Ids a caller may name: every id the counter can issue, and one it cannot.
Ids == 0..MaxAdds

\* Option: empty, or holding one value.
None == << >>
Some(v) == <<v>>
is_some(o) == o # << >>
unwrap(o) == o[1]

(***************************************************************************)
(* Storable for Shoe: the map holds the encoded record, the fields in      *)
(* order, and every read decodes it.                                       *)
(***************************************************************************)
to_bytes(shoe) ==
    << shoe.owner, shoe.id, shoe.name, shoe.size, shoe.shoe_url, shoe.price,
       shoe.quantity, shoe.like, shoe.liked_by, shoe.created_at, shoe.updated_at >>

from_bytes(bytes) ==
    [owner |-> bytes[1], id |-> bytes[2], name |-> bytes[3], size |-> bytes[4],
     shoe_url |-> bytes[5], price |-> bytes[6], quantity |-> bytes[7],
     like |-> bytes[8], liked_by |-> bytes[9], created_at |-> bytes[10],
     updated_at |-> bytes[11]]

(***************************************************************************)
(* The canister state a handler reads and writes: ID_COUNTER and           *)
(* SHOE_STORAGE (id -> encoded Shoe).                                      *)
(***************************************************************************)
State(cnt, map) == [counter |-> cnt, store |-> map]

\* What a call leaves behind: the state and the response.
Outcome(S, result) == [state |-> S, result |-> result]

\* An insert that keeps the value of a key already present.
do_insert_KeepsOld(map, shoe) ==
    [k \in DOMAIN map \cup {shoe.id} |-> IF k \in DOMAIN map THEN map[k] ELSE to_bytes(shoe)]

\* StableBTreeMap::insert of do_insert.
do_insert(map, shoe) ==
    [k \in DOMAIN map \cup {shoe.id} |-> IF k = shoe.id THEN to_bytes(shoe) ELSE map[k]]

\* StableBTreeMap::get of _get_shoe.
_get_shoe(map, id) == IF id \in DOMAIN map THEN Some(from_bytes(map[id])) ELSE None

\* A remove that leaves the entry in place.
map_remove_Keeps(map, id) == map

\* StableBTreeMap::remove.
map_remove(map, id) == [k \in DOMAIN map \ {id} |-> map[k]]

\* StableBTreeMap::iter: the records in ascending key order.
RECURSIVE iter_keys(_, _)
iter_keys(map, ks) ==
    IF ks = {} THEN << >>
    ELSE LET k == CHOOSE x \in ks : \A y \in ks : x <= y
         IN  <<from_bytes(map[k])>> \o iter_keys(map, ks \ {k})

map_iter(map) == iter_keys(map, DOMAIN map)

\* An owner check that lets every caller through.
_validate_owner_Any(shoe, c) == TRUE

_validate_owner(shoe, c) == ~(shoe.owner # to_string(c))

NotFound(id) == [kind |-> "NotFound", id |-> id, caller |-> 0]
NotAuthorized(id, c) == [kind |-> "NotAuthorized", id |-> id, caller |-> c]
AlreadyLiked(id, c) == [kind |-> "AlreadyLiked", id |-> id, caller |-> c]

\* The record add_shoe builds.
NewShoe(id, payload, c, t) ==
    [owner |-> to_string(c), id |-> id, name |-> payload.name, size |-> payload.size,
     shoe_url |-> payload.shoe_url, price |-> payload.price,
     quantity |-> payload.quantity, like |-> 0, liked_by |-> << >>,
     created_at |-> t, updated_at |-> None]

\* Cell::set that hands back the value it has just stored.
IdCell_set_ReturnsNew(cell, value) == [cell |-> value, old |-> value]

\* Cell::set that hands back the old value without storing the new one.
IdCell_set_Forgets(cell, value) == [cell |-> cell, old |-> cell]

\* Cell::set: stores the value and hands back the one it replaces.
IdCell_set(cell, value) == [cell |-> value, old |-> cell]

add_shoe(S, t, c, payload) ==
    LET v    == validate_shoe_payload(payload)
        set  == IdCell_set(S.counter, S.counter + 1)
        shoe == NewShoe(set.old, payload, c, t)
    IN  IF v.tag = "ErrMsg" THEN Outcome(S, v)
        ELSE Outcome(State(set.cell, do_insert(S.store, shoe)), Ok(shoe))

get_shoe_by_id(S, id) ==
    LET got == _get_shoe(S.store, id)
    IN  IF is_some(got) THEN Outcome(S, Ok(unwrap(got))) ELSE Outcome(S, Err(NotFound(id)))

\* An update that starts the likes of the record afresh.
UpdatedShoe_ResetsLikes(shoe, payload, t) ==
    [shoe EXCEPT !.name = payload.name, !.size = payload.size,
                 !.price = payload.price, !.shoe_url = payload.shoe_url,
                 !.quantity = payload.quantity, !.updated_at = Some(t),
                 !.like = 0, !.liked_by = << >>]

\* The fields update_shoe overwrites.
UpdatedShoe(shoe, payload, t) ==
    [shoe EXCEPT !.name = payload.name, !.size = payload.size,
                 !.price = payload.price, !.shoe_url = payload.shoe_url,
                 !.quantity = payload.quantity, !.updated_at = Some(t)]

update_shoe(S, t, c, id, payload) ==
    LET first  == _get_shoe(S.store, id)
        second == _get_shoe(S.store, id)
        shoe   == UpdatedShoe(unwrap(second), payload, t)
    IN  IF ~is_some(first) THEN Outcome(S, Trap)    \* _get_shoe(&id).unwrap() on None
        ELSE IF ~_validate_owner(unwrap(first), c) THEN Outcome(S, Err(NotAuthorized(id, c)))
        ELSE IF is_some(second)
             THEN Outcome(State(S.counter, do_insert(S.store, shoe)), Ok(shoe))
             ELSE Outcome(S, Err(NotFound(id)))

\* A search that looks at the first entry only.
position_FirstOnly(liked_by, c) ==
    IF liked_by # << >> /\ to_string(liked_by[1]) = to_string(c) THEN Some(1) ELSE None

\* A search of liked_by that never finds anybody.
position_Never(liked_by, c) == None

\* liked_by.iter().position(..): the first index holding the caller, if any.
position(liked_by, c) ==
    LET hits == {i \in 1..Len(liked_by) : to_string(liked_by[i]) = to_string(c)}
    IN  IF hits = {} THEN None
        ELSE Some(CHOOSE i \in hits : \A j \in hits : i <= j)

\* A like that counts up instead of raising a flag.
LikedShoe_Counts(shoe, c) ==
    [shoe EXCEPT !.like = @ + 1, !.liked_by = Append(@, c)]

\* A like that fills every field but the id and the likes with its default.
LikedShoe_FromDefault(shoe, c) ==
    [owner |-> "", id |-> shoe.id, name |-> "", size |-> "", shoe_url |-> << >>,
     price |-> 0, quantity |-> 0, like |-> 1, liked_by |-> Append(shoe.liked_by, c),
     created_at |-> 0, updated_at |-> None]

\* A like that also hands the record to the caller.
LikedShoe_TakesOwner(shoe, c) ==
    [shoe EXCEPT !.like = 1, !.liked_by = Append(@, c), !.owner = to_string(c)]

\* The fields like_shoe overwrites.
LikedShoe(shoe, c) ==
    [shoe EXCEPT !.like = 1, !.liked_by = Append(@, c)]

like_shoe(S, c, id) ==
    LET got  == _get_shoe(S.store, id)
        shoe == LikedShoe(unwrap(got), c)
    IN  IF ~is_some(got) THEN Outcome(S, Err(NotFound(id)))
        ELSE IF is_some(position(unwrap(got).liked_by, c))
             THEN Outcome(S, Err(AlreadyLiked(id, c)))
             ELSE Outcome(State(S.counter, do_insert(S.store, shoe)), Ok(shoe))

\* A delete that never asks who is calling.
delete_shoe_NoCheck(S, c, id) ==
    LET removed == _get_shoe(S.store, id)
    IN  IF ~is_some(removed) THEN Outcome(S, Trap)
        ELSE Outcome(State(S.counter, map_remove(S.store, id)), Ok(unwrap(removed)))

delete_shoe(S, c, id) ==
    LET first   == _get_shoe(S.store, id)
        removed == _get_shoe(S.store, id)
    IN  IF ~is_some(first) THEN Outcome(S, Trap)    \* _get_shoe(&id).unwrap() on None
        ELSE IF ~_validate_owner(unwrap(first), c) THEN Outcome(S, Err(NotAuthorized(id, c)))
        ELSE IF is_some(removed)
             THEN Outcome(State(S.counter, map_remove(S.store, id)), Ok(unwrap(removed)))
             ELSE Outcome(S, Err(NotFound(id)))

(***************************************************************************)
(* usize arithmetic.  The canister is a 32-bit WebAssembly module, so a    *)
(* usize is four bytes, here least significant first, so that a product    *)
(* past the width can be computed.  A build with overflow checks panics    *)
(* on overflow, one without wraps.                                         *)
(***************************************************************************)
ToUsize(n) == <<n % 256, (n \div 256) % 256, (n \div 65536) % 256, (n \div 16777216) % 256>>

\* value: the low four bytes; overflow: whether anything was cut off.
usize_mul(a, b) ==
    LET v1 == a[1] * b[1]
        v2 == a[1] * b[2] + a[2] * b[1] + (v1 \div 256)
        v3 == a[1] * b[3] + a[2] * b[2] + a[3] * b[1] + (v2 \div 256)
        v4 == a[1] * b[4] + a[2] * b[3] + a[3] * b[2] + a[4] * b[1] + (v3 \div 256)
        hi == (v4 \div 256) + a[2] * b[4] + a[3] * b[3] + a[4] * b[2]
                            + a[3] * b[4] + a[4] * b[3] + a[4] * b[4]
    IN  [value |-> <<v1 % 256, v2 % 256, v3 % 256, v4 % 256>>, overflow |-> hi > 0]

usize_add(a, b) ==
    LET v1 == a[1] + b[1]
        v2 == a[2] + b[2] + (v1 \div 256)
        v3 == a[3] + b[3] + (v2 \div 256)
        v4 == a[4] + b[4] + (v3 \div 256)
    IN  [value |-> <<v1 % 256, v2 % 256, v3 % 256, v4 % 256>>, overflow |-> v4 >= 256]

\* Whether the usize is within the range of a length (below 2^31).
UsizeSmall(a) == a[4] < 128

UsizeVal(a) == a[1] + 256 * a[2] + 65536 * a[3] + 16777216 * a[4]

\* a >= n, for a length n.
UsizeGe(a, n) == ~UsizeSmall(a) \/ UsizeVal(a) >= n

(***************************************************************************)
(* Queries.                                                                *)
(***************************************************************************)
\* Vec::sort_by_key: a stable sort, ascending in the key field.
RECURSIVE sort_by_key(_, _)
sort_by_key(shoes, key) ==
    IF shoes = << >> THEN << >>
    ELSE LET n      == Len(shoes)
             x      == shoes[n]
             sorted == sort_by_key(SubSeq(shoes, 1, n - 1), key)
             before == {i \in 1..(n - 1) : sorted[i][key] <= x[key]}
             at     == IF before = {} THEN 0
                       ELSE CHOOSE i \in before : \A j \in before : j <= i
         IN  SubSeq(sorted, 1, at) \o <<x>> \o SubSeq(sorted, at + 1, n - 1)

get_shoes(S, page, page_size, sort_by, checks) ==
    LET shoes  == map_iter(S.store)
        sorted == sort_by_key(shoes, sort_by)
        start  == usize_mul(ToUsize(page), ToUsize(page_size))
        end    == usize_add(start.value, ToUsize(page_size))
        from   == UsizeVal(start.value)
        to     == IF UsizeGe(end.value, Len(shoes)) THEN Len(shoes)
                  ELSE UsizeVal(end.value)
    IN  IF sort_by \notin {"price", "created_at"}
        THEN Outcome(S, ErrMsg("Invalid sorting parameter"))
        ELSE IF checks /\ (start.overflow \/ end.overflow) THEN Outcome(S, Trap)
        ELSE IF UsizeGe(start.value, Len(shoes)) THEN Outcome(S, Ok(<< >>))
        ELSE IF from > to THEN Outcome(S, Trap)    \* slice index starts past its end
        ELSE Outcome(S, Ok(SubSeq(sorted, from + 1, to)))

\* An i16 that wraps.
wrap_i16(n) == ((n + 32768) % 65536) - 32768

\* Iterator::sum over i16.
RECURSIVE sum_i16(_, _, _)
sum_i16(shoes, acc, checks) ==
    IF shoes = << >> THEN Ok(acc)
    ELSE LET n == acc + Head(shoes).quantity
         IN  IF n = wrap_i16(n) THEN sum_i16(Tail(shoes), n, checks)
             ELSE IF checks THEN Trap
             ELSE sum_i16(Tail(shoes), wrap_i16(n), checks)

total_number_of_shoes(S, checks) == Outcome(S, sum_i16(map_iter(S.store), 0, checks))

search_by_name(S, name) ==
    LET Keep(item) == item.name = name
    IN  Outcome(S, Ok(SelectSeq(map_iter(S.store), Keep)))

ShoeSearchCriteria(name, size, min_price, max_price) ==
    [name |-> name, size |-> size, min_price |-> min_price, max_price |-> max_price]

\* A search whose minimum price is exclusive.
search_shoes_StrictMin(S, criteria) ==
    LET Keep(shoe) ==
            /\ (is_some(criteria.name) => shoe.name = unwrap(criteria.name))
            /\ (is_some(criteria.size) => shoe.size = unwrap(criteria.size))
            /\ (is_some(criteria.min_price) => shoe.price > unwrap(criteria.min_price))
            /\ (is_some(criteria.max_price) => shoe.price <= unwrap(criteria.max_price))
    IN  Outcome(S, Ok(SelectSeq(map_iter(S.store), Keep)))

search_shoes(S, criteria) ==
    LET Keep(shoe) ==
            /\ (is_some(criteria.name) => shoe.name = unwrap(criteria.name))
            /\ (is_some(criteria.size) => shoe.size = unwrap(criteria.size))
            /\ (is_some(criteria.min_price) => shoe.price >= unwrap(criteria.min_price))
            /\ (is_some(criteria.max_price) => shoe.price <= unwrap(criteria.max_price))
    IN  Outcome(S, Ok(SelectSeq(map_iter(S.store), Keep)))

(***************************************************************************)
(* State.                                                                  *)
(*   counter   ID_COUNTER, the id cell                                     *)
(*   store     SHOE_STORAGE, id -> encoded Shoe                            *)
(*   now       the host clock, as the latest call read it with time()      *)
(*   hist      history of the calls, read only by the properties:          *)
(*               issued   the ids add_shoe returned, in order              *)
(*               deleted  the ids delete_shoe removed                      *)
(*               creator  live id -> the caller of the add_shoe that made it*)
(*               stored   live id -> the record the latest successful      *)
(*                        add_shoe, update_shoe or like_shoe returned      *)
(*               likers   <<id, caller>> of the like_shoe calls made on    *)
(*                        live records                                     *)
(* The response of a call goes to its caller and is no part of the state.  *)
(***************************************************************************)
VARIABLES counter, store, now, hist

vars == <<counter, store, now, hist>>

Canister == State(counter, store)

\* The call ran at host time t: the state it leaves is installed.
Deliver(out, t) ==
    /\ counter' = out.state.counter
    /\ store' = out.state.store
    /\ now' = t

\* The host clock never runs backwards.
Times == now..MaxTime

\* A build either panics on integer overflow (TRUE) or wraps (FALSE).
BuildProfiles == BOOLEAN

PageInputs == 0..MaxPage \cup {2^30}
PageSizeInputs == {1, 2, 4}
SortInputs == {"price", "created_at", "name"}
NameInputs == {"boot", "clog", "pump"}
CriteriaInputs ==
    { ShoeSearchCriteria(n, s, lo, hi) :
        n \in {None, Some("boot")}, s \in {None, Some("42")},
        lo \in {None, Some(30)}, hi \in {None, Some(10)} }

Init ==
    /\ counter = 0
    /\ store = << >>
    /\ now = 0
    /\ hist = [issued |-> << >>, deleted |-> {}, creator |-> << >>,
               stored |-> << >>, likers |-> {}]

CallAddShoe(c, payload, t) ==
    LET out == add_shoe(Canister, t, c, payload)
    IN  /\ out.result.tag = "Ok" => counter < MaxAdds
        /\ Deliver(out, t)
        /\ hist' = IF out.result.tag # "Ok" THEN hist
                   ELSE LET shoe == out.result.val
                        IN  [hist EXCEPT
                               !.issued = Append(@, shoe.id),
                               !.creator = [k \in DOMAIN @ \cup {shoe.id} |->
                                               IF k = shoe.id THEN c ELSE @[k]],
                               !.stored = [k \in DOMAIN @ \cup {shoe.id} |->
                                               IF k = shoe.id THEN shoe ELSE @[k]]]

CallUpdateShoe(c, id, payload, t) ==
    LET out == update_shoe(Canister, t, c, id, payload)
    IN  /\ Deliver(out, t)
        /\ hist' = IF out.result.tag # "Ok" THEN hist
                   ELSE [hist EXCEPT !.stored = [k \in DOMAIN @ \cup {id} |->
                                        IF k = id THEN out.result.val ELSE @[k]]]

CallLikeShoe(c, id, t) ==
    LET out == like_shoe(Canister, c, id)
    IN  /\ Deliver(out, t)
        /\ hist' = IF id \notin DOMAIN store THEN hist
                   ELSE IF out.result.tag # "Ok"
                   THEN [hist EXCEPT !.likers = @ \cup {<<id, c>>}]
                   ELSE [hist EXCEPT
                           !.likers = @ \cup {<<id, c>>},
                           !.stored = [k \in DOMAIN @ \cup {id} |->
                                          IF k = id THEN out.result.val ELSE @[k]]]

CallDeleteShoe(c, id, t) ==
    LET out == delete_shoe(Canister, c, id)
    IN  /\ Deliver(out, t)
        /\ hist' = IF out.result.tag # "Ok" THEN hist
                   ELSE [hist EXCEPT
                           !.deleted = @ \cup {id},
                           !.creator = [k \in DOMAIN @ \ {id} |-> @[k]],
                           !.stored = [k \in DOMAIN @ \ {id} |-> @[k]],
                           !.likers = {l \in @ : l[1] # id}]

CallGetShoeById(id, t) ==
    /\ Deliver(get_shoe_by_id(Canister, id), t)
    /\ UNCHANGED hist

CallGetShoes(page, page_size, sort_by, checks, t) ==
    /\ Deliver(get_shoes(Canister, page, page_size, sort_by, checks), t)
    /\ UNCHANGED hist

CallTotalNumberOfShoes(checks, t) ==
    /\ Deliver(total_number_of_shoes(Canister, checks), t)
    /\ UNCHANGED hist

CallSearchByName(name, t) ==
    /\ Deliver(search_by_name(Canister, name), t)
    /\ UNCHANGED hist

CallSearchShoes(criteria, t) ==
    /\ Deliver(search_shoes(Canister, criteria), t)
    /\ UNCHANGED hist

Next ==
    \/ \E c \in Principals, payload \in Payloads, t \in Times : CallAddShoe(c, payload, t)
    \/ \E c \in Principals, id \in Ids, payload \in Payloads, t \in Times :
          CallUpdateShoe(c, id, payload, t)
    \/ \E c \in Principals, id \in Ids, t \in Times : CallLikeShoe(c, id, t)
    \/ \E c \in Principals, id \in Ids, t \in Times : CallDeleteShoe(c, id, t)
    \/ \E id \in Ids, t \in Times : CallGetShoeById(id, t)
    \/ \E page \in PageInputs, page_size \in PageSizeInputs, sort_by \in SortInputs,
          checks \in BuildProfiles, t \in Times :
          CallGetShoes(page, page_size, sort_by, checks, t)
    \/ \E checks \in BuildProfiles, t \in Times : CallTotalNumberOfShoes(checks, t)
    \/ \E name \in NameInputs, t \in Times : CallSearchByName(name, t)
    \/ \E criteria \in CriteriaInputs, t \in Times : CallSearchShoes(criteria, t)

Spec == Init /\ [][Next]_vars

(***************************************************************************)
(* Properties.                                                             *)
(***************************************************************************)
Live == DOMAIN store

Stored(id) == from_bytes(store[id])

\* C1: every successful add_shoe returns an id that no earlier successful
\* add_shoe returned, whether or not the earlier record was deleted since.
C1_IdsNeverReused ==
    \A i, j \in 1..Len(hist.issued) : i # j => hist.issued[i] # hist.issued[j]

\* A second id was issued after the record of the first was deleted.
C1_Witness ==
    /\ Len(hist.issued) >= 2
    /\ hist.issued[1] \in hist.deleted
    /\ hist.issued[2] \in Live

\* C2: update_shoe on a live record by a caller who is not its owner returns
\* NotAuthorized and leaves the map and the id counter as they were.
C2_NonOwnerUpdateRejected ==
    \A c \in Principals, id \in Live, payload \in Payloads, t \in Times :
        Stored(id).owner # to_string(c) =>
            LET out == update_shoe(Canister, t, c, id, payload)
            IN  /\ out.result = Err(NotAuthorized(id, c))
                /\ out.state = Canister

\* A live record, and a caller who is not its owner and is turned away with a
\* payload that differs from the record.
C2_Witness ==
    \E c \in Principals, id \in Live, payload \in Payloads :
        /\ Stored(id).owner # to_string(c)
        /\ payload.price # Stored(id).price
        /\ update_shoe(Canister, now, c, id, payload).result.tag = "Err"

\* C3: update_shoe and delete_shoe on an id that is not in the map return
\* NotFound to the caller, without aborting, and leave the map and the id
\* counter as they were.
C3_AbsentIdIsNotFound ==
    \A c \in Principals, id \in Ids \ Live, payload \in Payloads, t \in Times :
        /\ update_shoe(Canister, t, c, id, payload) = Outcome(Canister, Err(NotFound(id)))
        /\ delete_shoe(Canister, c, id) = Outcome(Canister, Err(NotFound(id)))

\* C4: every record in the map has price >= 0 and quantity > 0.
C4_StoredRecordsValid ==
    \A id \in Live : Stored(id).price >= 0 /\ Stored(id).quantity > 0

C6_InvalidAddChangesNothing ==
    \A c \in Principals, payload \in Payloads, t \in Times :
        (payload.shoe_url = UrlBad \/ payload.price < 0 \/ payload.quantity <= 0) =>
            LET out == add_shoe(Canister, t, c, payload)
            IN  /\ out.result.tag = "ErrMsg"
                /\ out.state = Canister

\* With records in the map, a payload of quantity 0 is turned away.
C6_Witness ==
    /\ counter > 0
    /\ Live # {}
    /\ \E c \in Principals, payload \in Payloads :
          /\ payload.quantity = 0
          /\ add_shoe(Canister, now, c, payload).result = ErrMsg("Invalid quantity value")

\* C7: once delete_shoe(id) has succeeded, get_shoe_by_id(id) returns NotFound.
C7_DeletedIsNotFound ==
    \A id \in hist.deleted : get_shoe_by_id(Canister, id).result = Err(NotFound(id))

\* A record was deleted and another one was added afterwards.
C7_Witness ==
    /\ Len(hist.issued) >= 2
    /\ hist.issued[1] \in hist.deleted
    /\ hist.issued[2] \in Live
    /\ get_shoe_by_id(Canister, hist.issued[1]).result.tag = "Err"

\* C8: the owner of every live record is the caller of the add_shoe that
\* created it.
C8_OwnerIsCreator ==
    \A id \in Live : Stored(id).owner = to_string(hist.creator[id])

\* A record that its owner updated and that somebody else liked.
C8_Witness ==
    \E id \in Live :
        /\ Stored(id).updated_at # None
        /\ \E i \in 1..Len(Stored(id).liked_by) :
              Stored(id).liked_by[i] # hist.creator[id]

\* C9: for every live id, get_shoe_by_id returns the record that the latest
\* successful add_shoe, update_shoe or like_shoe on that id returned.
C9_GetReturnsLatestStored ==
    /\ DOMAIN hist.stored = Live
    /\ \A id \in Live : get_shoe_by_id(Canister, id).result = Ok(hist.stored[id])

\* A record that was updated and liked since it was added.
C9_Witness ==
    \E id \in Live :
        /\ hist.stored[id].updated_at # None
        /\ hist.stored[id].liked_by # << >>
        /\ hist.stored[id].price < 0

\* The pages first..last of the listing by price, one after the other.
RECURSIVE ConcatPages(_, _, _, _)
ConcatPages(first, last, page_size, checks) ==
    IF first > last THEN << >>
    ELSE get_shoes(Canister, first, page_size, "price", checks).result.val
         \o ConcatPages(first + 1, last, page_size, checks)

\* C10: for every page_size > 0, the pages 0, 1, ... of get_shoes by price, one
\* after the other, hold every stored record exactly once in ascending price
\* order, and every page whose start offset page * page_size is at or past
\* the number of records is an empty list, not an error.
C10_PagesCoverSortedStore ==
    \A page_size \in PageSizeInputs, checks \in BuildProfiles :
        LET n   == Cardinality(Live)
            all == ConcatPages(0, n, page_size, checks)
        IN  /\ \A page \in 0..n :
                  get_shoes(Canister, page, page_size, "price", checks).result.tag = "Ok"
            /\ Len(all) = n
            /\ \A id \in Live : \E i \in 1..n : all[i] = Stored(id)
            /\ \A i \in 1..(n - 1) : all[i].price <= all[i + 1].price
            /\ \A page \in PageInputs :
                  page >= (n + page_size - 1) \div page_size =>
                      get_shoes(Canister, page, page_size, "price", checks).result = Ok(<< >>)

\* The sum of the quantity fields of the records under ids, as an integer.
RECURSIVE QuantitySum(_)
QuantitySum(ids) ==
    IF ids = {} THEN 0
    ELSE LET id == CHOOSE x \in ids : TRUE
         IN  Stored(id).quantity + QuantitySum(ids \ {id})

\* C11: total_number_of_shoes returns the integer sum of the quantities of all
\* records in the map, also when that sum is more than 32767.
C11_TotalIsExactSum ==
    \A checks \in BuildProfiles :
        total_number_of_shoes(Canister, checks).result = Ok(QuantitySum(Live))

\* C12: search_shoes returns exactly the stored records that meet every
\* criterion given (name equal, size equal, price >= min_price, price <=
\* max_price), a criterion not given admitting everything; with none given
\* it returns every stored record.
C12_SearchReturnsMatches ==
    \A criteria \in CriteriaInputs :
        LET found   == search_shoes(Canister, criteria).result
            matches == {id \in Live :
                          /\ criteria.name \in {None, Some(Stored(id).name)}
                          /\ criteria.size \in {None, Some(Stored(id).size)}
                          /\ \A lo \in {criteria.min_price} \ {None} :
                                Stored(id).price >= unwrap(lo)
                          /\ \A hi \in {criteria.max_price} \ {None} :
                                Stored(id).price <= unwrap(hi)}
        IN  /\ found.tag = "Ok"
            /\ Len(found.val) = Cardinality(matches)
            /\ {found.val[i] : i \in 1..Len(found.val)} = {Stored(id) : id \in matches}
            /\ criteria = ShoeSearchCriteria(None, None, None, None) => matches = Live

\* Two records, of which a minimum price admits exactly the one at the bound
\* and a name together with a size admits none.
C12_Witness ==
    /\ Cardinality(Live) = 2
    /\ Len(search_shoes(Canister, ShoeSearchCriteria(None, None, Some(30), None)).result.val) = 1
    /\ Len(search_shoes(Canister, ShoeSearchCriteria(None, None, None, Some(10))).result.val) = 1
    /\ search_shoes(Canister, ShoeSearchCriteria(Some("boot"), Some("42"), None, None)).result.val = << >>
    /\ Len(search_shoes(Canister, ShoeSearchCriteria(None, None, None, None)).result.val) = 2

\* C13: delete_shoe on a live record by a caller who is not its owner returns
\* NotAuthorized and leaves the record, the map and the id counter as they
\* were; a record leaves the map only in a delete_shoe call of its owner.
C13_OnlyOwnerDeletes ==
    [][\A id \in Live :
          /\ \A c \in Principals :
                Stored(id).owner # to_string(c) =>
                    delete_shoe(Canister, c, id) = Outcome(Canister, Err(NotAuthorized(id, c)))
          /\ id \notin DOMAIN store' =>
                \E c \in Principals :
                    /\ Stored(id).owner = to_string(c)
                    /\ delete_shoe(Canister, c, id).result = Ok(Stored(id))
                    /\ State(counter', store') = delete_shoe(Canister, c, id).state]_vars

\* A record was deleted, and a live one faces a caller who is not its owner.
C13_Witness ==
    /\ hist.deleted # {}
    /\ \E id \in Live, c \in Principals :
          /\ Stored(id).owner # to_string(c)
          /\ delete_shoe(Canister, c, id).result.tag = "Err"

\* C14: update_shoe by the owner of a live record succeeds, sets name, size,
\* price, shoe_url and quantity to the payload's and updated_at to the time of
\* the call, and leaves owner, id, created_at, like and liked_by of the record,
\* every other record and the id counter as they were.
C14_UpdateFrame ==
    \A c \in Principals, id \in Live, payload \in Payloads, t \in Times :
        Stored(id).owner = to_string(c) =>
            LET out == update_shoe(Canister, t, c, id, payload)
                old == Stored(id)
                new == from_bytes(out.state.store[id])
            IN  /\ out.result = Ok(new)
                /\ new.name = payload.name
                /\ new.size = payload.size
                /\ new.price = payload.price
                /\ new.shoe_url = payload.shoe_url
                /\ new.quantity = payload.quantity
                /\ new.updated_at = Some(t)
                /\ new.owner = old.owner
                /\ new.id = old.id
                /\ new.created_at = old.created_at
                /\ new.like = old.like
                /\ new.liked_by = old.liked_by
                /\ DOMAIN out.state.store = Live
                /\ \A other \in Live \ {id} : out.state.store[other] = store[other]
                /\ out.state.counter = counter

\* A liked record beside another record, and a payload that differs from it.
C14_Witness ==
    \E id \in Live, payload \in Payloads :
        /\ Cardinality(Live) = 2
        /\ Stored(id).liked_by # << >>
        /\ Stored(id).updated_at = None
        /\ payload.name # Stored(id).name
        /\ \E c \in Principals : update_shoe(Canister, now, c, id, payload).result.tag = "Ok"

\* C15: a successful like_shoe, by the owner or anybody else, changes like and
\* liked_by of the record and nothing else: not the other fields of the
\* record, not another record, not the id counter.
C15_LikeFrame ==
    \A c \in Principals, id \in Live :
        LET out == like_shoe(Canister, c, id)
            old == Stored(id)
            new == from_bytes(out.state.store[id])
        IN  out.result.tag = "Ok" =>
                /\ out.result = Ok(new)
                /\ new = [old EXCEPT !.like = new.like, !.liked_by = new.liked_by]
                /\ DOMAIN out.state.store = Live
                /\ \A other \in Live \ {id} : out.state.store[other] = store[other]
                /\ out.state.counter = counter

\* An updated record beside another record, which its owner and somebody else
\* can both still like.
C15_Witness ==
    \E id \in Live :
        /\ Cardinality(Live) = 2
        /\ Stored(id).updated_at # None
        /\ \A c \in Principals : like_shoe(Canister, c, id).result.tag = "Ok"

\* C16: no identity is twice in the liked_by list of a stored record, whatever
\* likes by different callers and updates by the owner came before.
C16_LikersDistinct ==
    \A id \in Live :
        \A i, j \in 1..Len(Stored(id).liked_by) :
            i # j => to_string(Stored(id).liked_by[i]) # to_string(Stored(id).liked_by[j])

\* A record liked by two callers and updated by its owner, which turns a
\* further like of either away.
C16_Witness ==
    \E id \in Live :
        /\ Len(Stored(id).liked_by) = 2
        /\ Stored(id).updated_at # None
        /\ \A c \in Principals : like_shoe(Canister, c, id).result = Err(AlreadyLiked(id, c))

\* C17: after a successful update_shoe or like_shoe on a record, updated_at of
\* that record is present.
C17_MutationStampsUpdatedAt ==
    \A c \in Principals, id \in Live :
        /\ \A payload \in Payloads, t \in Times :
              LET out == update_shoe(Canister, t, c, id, payload)
              IN  out.result.tag = "Ok" => from_bytes(out.state.store[id]).updated_at # None
        /\ LET out == like_shoe(Canister, c, id)
           IN  out.result.tag = "Ok" => from_bytes(out.state.store[id]).updated_at # None

\* C18: like of every stored record is 0 or 1, and it is 1 exactly when the
\* liked_by list of the record is not empty.
C18_LikeIsFlag ==
    \A id \in Live :
        /\ Stored(id).like \in {0, 1}
        /\ Stored(id).like = 1 <=> Stored(id).liked_by # << >>

\* A record nobody liked beside one that two callers liked.
C18_Witness ==
    \E id, other \in Live :
        /\ Stored(id).liked_by = << >>
        /\ Len(Stored(other).liked_by) = 2

\* C19: the k-th successful add_shoe returns id k-1, so the counter is the
\* number of successful add_shoe calls, is above every key of the map, and
\* every key of the map is the id of the record stored under it.
C19_CounterCountsAdds ==
    /\ \A k \in 1..Len(hist.issued) : hist.issued[k] = k - 1
    /\ counter = Len(hist.issued)
    /\ \A id \in Live : id < counter /\ Stored(id).id = id

\* Two adds succeeded, the record of the first is gone and the second is live.
C19_Witness ==
    /\ Len(hist.issued) = 2
    /\ Live = {1}
    /\ 0 \in hist.deleted

====
